---- MODULE Spec2Model ----
(***************************************************************************)
(* A model of jonathanwei/wile: the certificate lifecycle engine of        *)
(* wile.go (desired domains, decision loop, copy-on-write certificate      *)
(* table, debounced crash-safe persistence) and the etcd-backed HTTP-01    *)
(* challenge coordination.                                                 *)
(*                                                                         *)
(* Time is counted in days.  Byte strings (PEM chains, keys) are records   *)
(* [kind, na]: kind "pem" is a well-formed chain whose leaf expires on day *)
(* na, "junk" is bytes that do not parse, "nil" is a nil slice.            *)
(***************************************************************************)
EXTENDS Integers, Sequences, FiniteSets, TLC

\* ------------------------------------------------------------------ bounds
Domains == {"a.example", "b.example"}
ServerNames == Domains \cup {"other.example"}

\* Longest domain list handed to SetDomains / Config.InitialDomains; the lists
\* name each host once, as the server builds them from its host table.
MaxListLen == 2
\* Last day the clock reaches.
MaxNow == 1
\* Concurrent GetCertificate callers (TLS handshakes).
NumReaders == 1
\* Mutations of the persisted state made by the mutate-callers of PersistSpec.
MaxMutations == 2
\* Commit failures in PersistSpec.
MaxFails == 1
\* SetDomains calls counted in WakeSpec, the one made by init included.
MaxSetCalls == 2
\* Ticker firings counted in WakeSpec.
MaxTicks == 1
\* 30*24*time.Hour, in days.
RenewBefore == 30
\* Validity (days from issue) of the certificates the authority hands out:
\* exactly on the renewal threshold and one day above it.
Lifetimes == {RenewBefore, RenewBefore + 1}

DomainLists ==
  {l \in UNION {[1..n -> Domains] : n \in 0..MaxListLen} :
     \A i, k \in DOMAIN l : l[i] = l[k] => i = k}

\* ------------------------------------------------------------- byte values
NilBytes == [kind |-> "nil", na |-> 0]
JunkBytes == [kind |-> "junk", na |-> 0]
KeyBytes == [kind |-> "key", na |-> 0]
Pem(t) == [kind |-> "pem", na |-> t]

NoLeaf == [NotAfter |-> -1, set |-> FALSE]
ErrCert == [err |-> TRUE, Certificate |-> NilBytes, PrivateKey |-> NilBytes, Leaf |-> NoLeaf]

\* tls.X509KeyPair: fails unless the chain and the key both parse.
X509KeyPair(certPEM, keyPEM) ==
  IF certPEM.kind = "pem" /\ keyPEM.kind = "key"
  THEN [err |-> FALSE, Certificate |-> certPEM, PrivateKey |-> keyPEM, Leaf |-> NoLeaf]
  ELSE ErrCert

\* setLeaf: x509.ParseCertificate(cert.Certificate[0]) into cert.Leaf.
setLeaf(cert) ==
  IF cert.Certificate.kind = "pem"
  THEN [cert EXCEPT !.Leaf = [NotAfter |-> cert.Certificate.na, set |-> TRUE]]
  ELSE ErrCert

\* A parse that accepts any bytes.
ParseCertLenient(certPEM, keyPEM) ==
  [err |-> FALSE, Certificate |-> certPEM, PrivateKey |-> keyPEM,
   Leaf |-> [NotAfter |-> certPEM.na, set |-> TRUE]]

\* The parse of acceptNewCertResource and of init's loop: key pair, then leaf.
ParseCert(certPEM, keyPEM) ==
  LET cert == X509KeyPair(certPEM, keyPEM)
  IN  IF cert.err THEN ErrCert ELSE setLeaf(cert)

\* acme.CertificateResource as the authority returns it.
CertResource(d, certPEM, keyPEM) ==
  [Domain |-> d, Certificate |-> certPEM, PrivateKey |-> keyPEM]

\* jsonCertResource{CertResource, Certificate, PrivateKey}.
jsonCertResource(cr) ==
  [CertResource |-> cr, Certificate |-> cr.Certificate, PrivateKey |-> cr.PrivateKey]

\* What the authority may answer on day t for domain d: a fresh chain with one
\* of the lifetimes, or bytes that do not parse.
AuthorityResults(d, t) ==
  {CertResource(d, Pem(t + l), KeyBytes) : l \in Lifetimes}
    \cup {CertResource(d, JunkBytes, KeyBytes)}

EmptyMap == [x \in {} |-> NilBytes]

\* m with key k set to v (a Go map assignment m[k] = v).
MapSet(m, k, v) == [x \in (DOMAIN m) \cup {k} |-> IF x = k THEN v ELSE m[x]]

\* m without key k.
MapDelete(m, k) == [x \in (DOMAIN m) \ {k} |-> m[x]]

\* A send on a channel of capacity one inside select/default: the slot is full
\* afterwards, whether this send filled it or was dropped.
TrySendDropped(ch) == ch
TrySend(ch) == 1

\* ------------------------------------------------------------------- state
VARIABLES
  now,          \* the wall clock, in days
  domains,      \* Client.domains
  domainsMu,    \* Client.domainsMu: "" or the holder
  tickCh,       \* Client.tickCh: number of buffered wake signals (capacity 1)
  setPc,        \* position of the caller of NewClient and then SetDomains
  certs,        \* Client.certs: the published certMap
  pc,           \* position of the domainLoop goroutine, "off" until init starts it
  loopDomains,  \* domainLoop's local `domains`
  idx,          \* domainLoop's position in loopDomains
  res,          \* the certificate resource in flight in createCert/renewCert
  newCerts,     \* mutateCerts' local clone
  readers,      \* the GetCertificate calls in progress
  data,         \* Client.data
  dataCh,       \* Client.dataCh: number of buffered dirty signals (capacity 1)
  dataMu,       \* Client.dataMu: "" or the holder
  cycleQuiet,   \* history: no domain of the running cycle needed action so far
  nSet,         \* history: SetDomains calls so far
  nTick,        \* history: ticker firings so far
  nCycle,       \* history: decision-loop cycles started so far
  seen,         \* history: the loop read `domains` after the last SetDomains call
  wPc,          \* position of the dataWriter goroutine, "off" until init starts it
  j,            \* writeDataJSON's encoded bytes
  tmp,          \* the temporary file of writeDataJSON
  file,         \* the file at Config.Path
  sleeping,     \* delayedDataWrite goroutines in their time.Sleep
  crashed,      \* the process was killed
  fails,        \* history: commit failures so far
  nAttempt,     \* history: writeDataJSON calls so far
  dataVer,      \* history: mutations applied to Client.data so far
  jVer,         \* history: dataVer when j was encoded, -1 before the first encode
  fileVer,      \* history: jVer of the bytes renamed into place, -1 before
  etcd,         \* the etcd key space shared by the replicas
  prov,         \* the etcdProvider call in progress on each replica
  served,       \* the challenge request answered last, until the response is sent
  presented,    \* history: per challenge, the key authorization of the Present
                \* that returned nil with no provider call on it since
  cacheOp,      \* the EncryptingCache.Get answered last, until its caller has it
  cached,       \* history: per logical key, what the cache calls left for it
  nTamper       \* history: writes to the store made behind the cache's back

clockVars == <<now>>
domVars == <<domains, domainsMu, tickCh, setPc>>
loopVars == <<pc, loopDomains, idx, res, newCerts>>
tableVars == <<certs>>
dataVars == <<data, dataCh, dataMu>>
cycleVars == <<cycleQuiet>>
countVars == <<nSet, nTick, nCycle>>
wakeVars == <<countVars, seen>>
writerVars == <<wPc, j, tmp, file, sleeping, crashed>>
verVars == <<fails, nAttempt, dataVer, jVer, fileVer>>
persistVars == <<writerVars, verVars>>
engineVars == <<clockVars, domVars, loopVars, tableVars, readers, cycleVars, wakeVars>>
challengeVars == <<etcd, prov, served, presented>>
cacheVars == <<cacheOp, cached, nTamper>>
vars == <<engineVars, dataVars, persistVars, challengeVars, cacheVars>>

\* ------------------------------------------------ challenge values
\* The replicas of the server; they share one etcd cluster.
Replicas == {"r1", "r2"}
\* Tokens the authority hands out, and the rest of the path of a request.
Tokens == {"t1"}
RequestTokens == Tokens \cup {"t2", ""}
KeyAuths == {"ka1", "ka2"}
Challenges == Domains \X Tokens
Methods == {"GET", "POST"}

NoKeyAuth == [keyAuth |-> "", by |-> ""]
IdleProvider == [pc |-> "idle", op |-> "", domain |-> "", token |-> "", keyAuth |-> ""]
\* http.StatusOK, what rw.Write sends when no header was written before, and
\* http.StatusNotFound, what http.NotFound sends.
StatusOK == 200
StatusNotFound == 404
NoRequest ==
  [replica |-> "", method |-> "", prefix |-> FALSE, host |-> "", token |-> "",
   readErr |-> FALSE, panic |-> FALSE, status |-> 0, body |-> ""]

\* ------------------------------------------------ certificate cache values
\* Logical keys of the autocert cache and the payloads stored under them.
CacheKeys == {"k1", "k2"}
Payloads == {<<>>, <<1>>}
\* aead.NonceSize(), in bytes.
NonceSize == 1
\* Writes to the store made behind the cache's back in CacheSpec.
MaxTampers == 1

\* The bytes of a stored value: nonce bytes, encrypted bytes, and the
\* authentication tag over nonce, plaintext and additional data.
NonceByte(b) == [kind |-> "nonce", v |-> <<b>>]
CipherByte(b) == [kind |-> "cipher", v |-> <<b>>]
Tag(nonce, plaintext, additionalData) ==
  [kind |-> "tag", v |-> <<nonce, plaintext, additionalData>>]
BadTag == [kind |-> "tag", v |-> <<>>]
\* The nonces rand.Reader gives: all bytes zero, all bytes one.
Nonces == {[i \in 1..NonceSize |-> NonceByte(b)] : b \in {0, 1}}

NothingCached == [state |-> "none", data |-> <<>>]
NoCacheOp == [op |-> "", key |-> "", err |-> "", data |-> <<>>, implErr |-> "", val |-> <<>>]

Readers == 1..NumReaders
NoRes == CertResource("", NilBytes, NilBytes)
IdleReader ==
  [pc |-> "idle", name |-> "", snap |-> EmptyMap, result |-> ErrCert, unknown |-> FALSE]

\* A panic in any goroutine ends the process.
Alive == pc # "panic" /\ ~crashed

\* ------------------------------------------------------------ SetDomains
\* SetDomains, lines 75-79: take domainsMu and replace the list by a copy.
SetDomainsStore(list) ==
  /\ Alive /\ setPc = "idle" /\ domainsMu = ""
  /\ domainsMu' = "set"
  /\ domains' = list
  /\ setPc' = "send"
  /\ seen' = FALSE
  /\ UNCHANGED <<tickCh, clockVars, loopVars, tableVars, readers, dataVars, cycleVars>>

\* SetDomains, lines 82-85 and the deferred unlock: wake the loop, never block.
SetDomainsWake ==
  /\ Alive /\ setPc = "send"
  /\ tickCh' = TrySend(tickCh)
  /\ domainsMu' = ""
  /\ setPc' = "idle"
  /\ UNCHANGED <<domains, wakeVars, clockVars, loopVars, tableVars, readers, dataVars, cycleVars>>

\* tick: every ten minutes, wake the loop unless a wake is already buffered.
TickFire ==
  /\ Alive
  /\ tickCh' = TrySend(tickCh)
  /\ UNCHANGED <<domains, domainsMu, setPc, seen, clockVars, loopVars, tableVars,
                 readers, dataVars, cycleVars>>

\* The clock moves on by a day.
AdvanceTime ==
  /\ Alive /\ now < MaxNow
  /\ now' = now + 1
  /\ UNCHANGED <<domVars, loopVars, tableVars, readers, dataVars, cycleVars, wakeVars>>

\* ---------------------------------------------------------- GetCertificate
\* GetCertificate, line 89: load the current snapshot.
GetCertificateLoad(r, name) ==
  /\ Alive /\ readers[r].pc \in {"idle", "done"}
  /\ readers' = [readers EXCEPT ![r] =
       [IdleReader EXCEPT !.pc = "lookup", !.name = name, !.snap = certs]]
  /\ UNCHANGED <<clockVars, domVars, loopVars, tableVars, dataVars, cycleVars, wakeVars>>

\* The lookup of lines 91-96 in a snapshot.
LookupFallback(snap, name) ==
  IF name \in DOMAIN snap
  THEN [cert |-> snap[name], unknown |-> FALSE]
  ELSE IF DOMAIN snap # {}
  THEN [cert |-> snap[CHOOSE x \in DOMAIN snap : TRUE], unknown |-> FALSE]
  ELSE [cert |-> ErrCert, unknown |-> TRUE]
Lookup(snap, name) ==
  IF name \in DOMAIN snap
  THEN [cert |-> snap[name], unknown |-> FALSE]
  ELSE [cert |-> ErrCert, unknown |-> TRUE]

\* GetCertificate, lines 91-96: answer from the loaded snapshot.
GetCertificateReturn(r) ==
  /\ Alive /\ readers[r].pc = "lookup"
  /\ LET got == Lookup(readers[r].snap, readers[r].name)
     IN  readers' = [readers EXCEPT ![r].pc = "done", ![r].name = "", ![r].snap = EmptyMap,
                                    ![r].result = got.cert, ![r].unknown = got.unknown]
  /\ UNCHANGED <<clockVars, domVars, loopVars, tableVars, dataVars, cycleVars, wakeVars>>

\* -------------------------------------------------------------- domainLoop
\* The loop's next position once domain number idx is dealt with.
NextDomain ==
  /\ pc' = "iter"
  /\ idx' = idx + 1
  /\ res' = NoRes

\* A loop that takes a wake signal while an authority call is in flight.
LoopRecvPreempt ==
  /\ pc \in {"recv", "obtain", "renew"} /\ tickCh = 1
  /\ tickCh' = 0
  /\ pc' = "domains"
  /\ UNCHANGED <<domains, domainsMu, setPc, loopDomains, idx, res, newCerts, clockVars,
                 tableVars, readers, dataVars, cycleVars, wakeVars>>

\* domainLoop, line 100: wait for a wake signal.
LoopRecv ==
  /\ pc = "recv" /\ tickCh = 1
  /\ tickCh' = 0
  /\ pc' = "domains"
  /\ UNCHANGED <<domains, domainsMu, setPc, loopDomains, idx, res, newCerts, clockVars,
                 tableVars, readers, dataVars, cycleVars, wakeVars>>

\* domainLoop, lines 101-103: read the desired list under domainsMu.
LoopReadDomains ==
  /\ pc = "domains" /\ domainsMu = ""
  /\ loopDomains' = domains
  /\ idx' = 1
  /\ pc' = "iter"
  /\ seen' = TRUE
  /\ cycleQuiet' = TRUE
  /\ UNCHANGED <<res, newCerts, domVars, clockVars, tableVars, readers, dataVars>>

\* The decision of lines 106-124 for one domain, with the table and the clock
\* as read at that domain's turn.
DecideRenewAll(table, domain, t) ==
  IF domain \notin DOMAIN table THEN "createCert" ELSE "renewCert"
DecideInclusive(table, domain, t) ==
  IF domain \notin DOMAIN table THEN "createCert"
  ELSE IF table[domain].Leaf.NotAfter - t >= RenewBefore THEN "continue"
  ELSE "renewCert"
Decide(table, domain, t) ==
  IF domain \notin DOMAIN table THEN "createCert"
  ELSE IF table[domain].Leaf.NotAfter - t > RenewBefore THEN "continue"
  ELSE "renewCert"

\* domainLoop, lines 105-125: the turn of domain number idx, or the end of the
\* cycle when the list is exhausted.
LoopIter ==
  /\ pc = "iter"
  /\ IF idx > Len(loopDomains)
     THEN /\ pc' = "recv"
          /\ idx' = 0
          /\ UNCHANGED cycleQuiet
     ELSE LET domain == loopDomains[idx]
              what == Decide(certs, domain, now)
          IN  /\ pc' = IF what = "continue" THEN "iter" ELSE what
              /\ idx' = IF what = "continue" THEN idx + 1 ELSE idx
              /\ cycleQuiet' = (cycleQuiet /\ domain \in DOMAIN certs
                                /\ certs[domain].Leaf.NotAfter - now > RenewBefore)
  /\ UNCHANGED <<loopDomains, res, newCerts, domVars, clockVars, tableVars, readers,
                 dataVars, wakeVars>>

\* createCert, lines 130-136: generate the key (which may fail) and call
\* ObtainCertificate.
CreateCertCall ==
  /\ pc = "createCert"
  /\ \/ /\ pc' = "obtain"
        /\ UNCHANGED <<idx, res>>
     \/ NextDomain
  /\ UNCHANGED <<loopDomains, newCerts, cycleVars, domVars, clockVars,
                 tableVars, readers, dataVars, wakeVars>>

\* An ObtainCertificate whose failure ends the cycle.
ObtainReturnGivesUp ==
  /\ pc = "obtain"
  /\ \/ /\ pc' = "recv"
        /\ idx' = 0
        /\ UNCHANGED res
     \/ \E cr \in AuthorityResults(loopDomains[idx], now) :
          /\ res' = cr
          /\ pc' = "accept"
          /\ UNCHANGED idx
  /\ UNCHANGED <<loopDomains, newCerts, domVars, clockVars, tableVars, readers, dataVars,
                 cycleVars, wakeVars>>

\* createCert, lines 136-142: ObtainCertificate returns errors or a resource.
ObtainReturn ==
  /\ pc = "obtain"
  /\ \/ NextDomain
     \/ \E cr \in AuthorityResults(loopDomains[idx], now) :
          /\ res' = cr
          /\ pc' = "accept"
          /\ UNCHANGED idx
  /\ UNCHANGED <<loopDomains, newCerts, domVars, clockVars, tableVars, readers, dataVars,
                 cycleVars, wakeVars>>

\* renewCert, lines 156-159: the stored resource with the chain and key that
\* its JSON form drops copied back in.
RenewRequest(jcr) ==
  [jcr.CertResource EXCEPT !.Certificate = jcr.Certificate, !.PrivateKey = jcr.PrivateKey]

\* renewCert, lines 147-161: look the stored resource up under dataMu, panic
\* when there is none, else call RenewCertificate.
RenewCertCall ==
  /\ pc = "renewCert" /\ dataMu = ""
  /\ LET domain == loopDomains[idx]
     IN  IF domain \in DOMAIN data.Certs
         THEN /\ pc' = "renew"
              /\ res' = RenewRequest(data.Certs[domain])
         ELSE /\ pc' = "panic"
              /\ UNCHANGED res
  /\ UNCHANGED <<loopDomains, idx, newCerts, cycleVars, domVars, clockVars,
                 tableVars, readers, dataVars, wakeVars>>

\* renewCert, lines 161-167: RenewCertificate returns an error or a resource.
RenewReturn ==
  /\ pc = "renew"
  /\ \/ NextDomain
     \/ \E cr \in AuthorityResults(loopDomains[idx], now) :
          /\ res' = cr
          /\ pc' = "accept"
          /\ UNCHANGED idx
  /\ UNCHANGED <<loopDomains, newCerts, domVars, clockVars, tableVars, readers, dataVars,
                 cycleVars, wakeVars>>

\* mutateCerts, lines 398-406: clone the published map and set one entry.
CloneNone(oldCerts, domain, cert) == MapSet(EmptyMap, domain, cert)
CloneAndSet(oldCerts, domain, cert) == MapSet(oldCerts, domain, cert)

\* acceptNewCertResource, lines 172-186, and mutateCerts up to its Store: parse
\* the resource; give up on a parse error, else build the new map.
AcceptParse ==
  /\ pc = "accept"
  /\ LET cert == ParseCert(res.Certificate, res.PrivateKey)
     IN  IF cert.err
         THEN /\ NextDomain
              /\ UNCHANGED newCerts
         ELSE /\ newCerts' = CloneAndSet(certs, loopDomains[idx], cert)
              /\ pc' = "store"
              /\ UNCHANGED <<idx, res>>
  /\ UNCHANGED <<loopDomains, domVars, clockVars, tableVars, readers, dataVars, cycleVars,
                 wakeVars>>

\* mutateCerts, line 408: publish the clone.
StoreCerts ==
  /\ pc = "store"
  /\ certs' = newCerts
  /\ newCerts' = EmptyMap
  /\ pc' = "mutateData"
  /\ UNCHANGED <<loopDomains, idx, res, domVars, clockVars, readers, dataVars, cycleVars,
                 wakeVars>>

\* An install that leaves the persisted state without the new resource.
RecordNone(d, domain, certResource) == d

\* The mutation of acceptNewCertResource, lines 188-194.
RecordCert(d, domain, certResource) ==
  [d EXCEPT !.Certs = MapSet(d.Certs, domain, jsonCertResource(certResource))]

\* mutateData, lines 383-386, called from acceptNewCertResource.
AcceptMutateData ==
  /\ pc = "mutateData" /\ dataMu = ""
  /\ dataMu' = "loop"
  /\ data' = RecordCert(data, loopDomains[idx], res)
  /\ pc' = "signal"
  /\ UNCHANGED <<dataCh, loopDomains, idx, res, newCerts, domVars, clockVars, tableVars,
                 readers, cycleVars, wakeVars>>

\* mutateData, lines 388-391 and the deferred unlock, then back to the loop.
AcceptSignal ==
  /\ pc = "signal"
  /\ dataCh' = TrySend(dataCh)
  /\ dataMu' = ""
  /\ NextDomain
  /\ UNCHANGED <<data, loopDomains, newCerts, domVars, clockVars, tableVars, readers,
                 cycleVars, wakeVars>>

\* ------------------------------------------------------- the state document
\* One JSON member of the state document.
Member(name, reg, certsOf) == [name |-> name, reg |-> reg, certs |-> certsOf]

\* The JSON form of a jsonCertResource: the nested resource's Certificate and
\* PrivateKey are tagged json:"-" and are dropped, the outer copies are kept.
StoredJSON(jcr) ==
  [CertResource |-> [jcr.CertResource EXCEPT !.Certificate = NilBytes, !.PrivateKey = NilBytes],
   Certificate |-> jcr.Certificate,
   PrivateKey |-> jcr.PrivateKey]

\* json.MarshalIndent(c.data): the document as a sequence of members.
MarshalIndent(d) ==
  << Member("{", FALSE, EmptyMap),
     Member("reg", d.Reg, EmptyMap),
     Member("certs", FALSE, [x \in DOMAIN d.Certs |-> StoredJSON(d.Certs[x])]),
     Member("}", FALSE, EmptyMap) >>

\* Whether bytes decode as a state document (data.DecodeFromJSON returns nil).
Decodes(bytes) ==
  /\ Len(bytes) = 4
  /\ bytes[1].name = "{" /\ bytes[2].name = "reg"
  /\ bytes[3].name = "certs" /\ bytes[4].name = "}"

\* data.DecodeFromJSON on a complete document.
DecodeFromJSON(bytes) == [Reg |-> bytes[2].reg, Certs |-> bytes[3].certs]

\* initData: a fresh state, no registration and no certificates.
initData == [Reg |-> FALSE, Certs |-> EmptyMap]

NoFile == [exists |-> FALSE, bytes |-> <<>>]
FileOf(bytes) == [exists |-> TRUE, bytes |-> bytes]

\* readData, lines 281-298, where the file is absent or decodes.
readData(f) == IF f.exists THEN DecodeFromJSON(f.bytes) ELSE initData

\* ----------------------------------------------------------------- startup
\* Chains a state document left by an earlier run may hold for a domain:
\* unparseable, expired, valid for more than the renewal threshold.
StoredChains == {JunkBytes, Pem(0), Pem(RenewBefore + 1)}

\* The state documents an earlier run may have left at Config.Path.
EarlierStates ==
  UNION {[S -> {jsonCertResource(CertResource("", c, KeyBytes)) : c \in StoredChains}]
           : S \in SUBSET Domains}

DiskStates ==
  {NoFile} \cup
  {FileOf(MarshalIndent([Reg |-> TRUE,
                         Certs |-> [x \in DOMAIN m |->
                                      [m[x] EXCEPT !.CertResource.Domain = x]]]))
     : m \in EarlierStates}

Range(list) == {list[i] : i \in 1..Len(list)}

\* init, lines 217-227: register and agree to the terms when there is no
\* registration yet.
Registered(d) == [d EXCEPT !.Reg = TRUE]

\* init, lines 239-254: the table built from the stored certificates of the
\* initial domains that parse.
InitialCerts(d, initialDomains) ==
  LET ok == {x \in Range(initialDomains) \cap DOMAIN d.Certs :
               ~ParseCert(d.Certs[x].Certificate, d.Certs[x].PrivateKey).err}
  IN  [x \in ok |-> ParseCert(d.Certs[x].Certificate, d.Certs[x].PrivateKey)]

\* The engine as init leaves it, started on state document f with
\* Config.InitialDomains = initialDomains.
ClientInit(f, initialDomains) ==
  /\ now = 0
  /\ data = Registered(readData(f))
  /\ dataCh = 1
  /\ dataMu = ""
  /\ certs = InitialCerts(readData(f), initialDomains)
  /\ domains = initialDomains
  /\ domainsMu = ""
  /\ tickCh = 1
  /\ setPc = "idle"
  /\ pc = "recv"
  /\ loopDomains = <<>>
  /\ idx = 0
  /\ res = NoRes
  /\ newCerts = EmptyMap
  /\ readers = [r \in Readers |-> IdleReader]
  /\ cycleQuiet = TRUE
  /\ nSet = 1
  /\ nTick = 0
  /\ nCycle = 0
  /\ seen = FALSE
  /\ wPc = "recv"
  /\ j = <<>>
  /\ tmp = NoFile
  /\ file = f
  /\ sleeping = 0
  /\ crashed = FALSE
  /\ fails = 0
  /\ nAttempt = 0
  /\ dataVer = 0
  /\ jVer = -1
  /\ fileVer = -1
  /\ etcd = EmptyMap
  /\ prov = [r \in Replicas |-> IdleProvider]
  /\ served = NoRequest
  /\ presented = [c \in Challenges |-> NoKeyAuth]
  /\ cacheOp = NoCacheOp
  /\ cached = [k \in CacheKeys |-> NothingCached]
  /\ nTamper = 0

Init == \E f \in DiskStates, initialDomains \in DomainLists : ClientInit(f, initialDomains)

\* The first run: no state document at Config.Path.
FreshInit == \E initialDomains \in DomainLists : ClientInit(NoFile, initialDomains)

\* ------------------------------------------------ the engine's specification
SetDomains ==
  /\ \E list \in DomainLists : SetDomainsStore(list)
  /\ UNCHANGED countVars

SetDomainsDone == SetDomainsWake

Tick == TickFire /\ UNCHANGED countVars

LoopStart == LoopReadDomains /\ UNCHANGED countVars

GetCertificate ==
  \/ \E r \in Readers, name \in ServerNames : GetCertificateLoad(r, name)
  \/ \E r \in Readers : GetCertificateReturn(r)

Next ==
  \/ SetDomains
  \/ SetDomainsDone
  \/ Tick
  \/ AdvanceTime
  \/ LoopRecv
  \/ LoopStart
  \/ LoopIter
  \/ CreateCertCall
  \/ ObtainReturn
  \/ RenewCertCall
  \/ RenewReturn
  \/ AcceptParse
  \/ StoreCerts
  \/ AcceptMutateData
  \/ AcceptSignal

\* The engine's steps leave the writer where it is.
EngineNext == Next /\ UNCHANGED <<persistVars, challengeVars, cacheVars>>

Spec == Init /\ [][EngineNext]_vars

\* Reader r takes the Load of GetCertificate in this step.
Loads(r) == readers[r].pc # "lookup" /\ readers'[r].pc = "lookup"
\* Reader r returns from GetCertificate in this step.
Returns(r) == readers[r].pc = "lookup" /\ readers'[r].pc = "done"

\* C1: GetCertificate works on the table published when it loads, and answers
\* "unknown server name" exactly when that table has no entry for the server
\* name, and the table's record for it when it has one.
C1_UnknownServerName ==
  [][\A r \in Readers :
       /\ Loads(r) => readers'[r].snap = certs
       /\ Returns(r) =>
            LET name == readers[r].name
                table == readers[r].snap
            IN  /\ name \notin DOMAIN table => readers'[r].unknown
                /\ name \in DOMAIN table =>
                     (~readers'[r].unknown /\ readers'[r].result = table[name])
    ]_vars

\* A handshake was answered "unknown server name" from a table that holds a
\* certificate for another name.
C1_Witness ==
  \E r \in Readers :
    /\ readers[r].pc = "done" /\ readers[r].unknown
    /\ Cardinality(DOMAIN certs) = 1
    /\ pc = "recv"

\* C2: once acceptNewCertResource(d, cert) has swapped the table, the table
\* maps d to exactly cert; the swap is one step that sets d and keeps every
\* other entry as it was; a reader loads the whole published table in one
\* step, keeps that snapshot unchanged through any swap, and answers from it.
C2_AtomicInstall ==
  /\ [](pc \in {"mutateData", "signal"} =>
          /\ loopDomains[idx] \in DOMAIN certs
          /\ certs[loopDomains[idx]].Certificate = res.Certificate
          /\ certs[loopDomains[idx]].PrivateKey = res.PrivateKey
          /\ certs[loopDomains[idx]].Leaf.NotAfter = res.Certificate.na)
  /\ [][/\ certs' # certs =>
            /\ pc = "store"
            /\ DOMAIN certs' = DOMAIN certs \cup {loopDomains[idx]}
            /\ \A e \in DOMAIN certs \ {loopDomains[idx]} : certs'[e] = certs[e]
            /\ certs'[loopDomains[idx]].Certificate = res.Certificate
        /\ \A r \in Readers :
            /\ Loads(r) => readers'[r].snap = certs
            /\ (readers[r].pc = "lookup" /\ readers'[r].pc = "lookup") =>
                 readers'[r].snap = readers[r].snap
            /\ (Returns(r) /\ readers[r].name \in DOMAIN readers[r].snap) =>
                 readers'[r].result = readers[r].snap[readers[r].name]
       ]_vars

\* A reader still holds the table from before a swap that left two entries in
\* the published table.
C2_Witness ==
  /\ pc \in {"mutateData", "signal"}
  /\ Cardinality(DOMAIN certs) = 2
  /\ \E r \in Readers : readers[r].pc = "lookup" /\ readers[r].snap # certs

\* ------------------------------------------------ the persistent state store
\* mutateData, lines 383-386, as acceptNewCertResource calls it once a
\* resource has parsed: take dataMu and record the resource.
MutateInstall ==
  /\ ~crashed /\ dataMu = "" /\ dataVer < MaxMutations
  /\ \E domain \in Domains :
       \E cr \in {c \in AuthorityResults(domain, now) :
                    ~ParseCert(c.Certificate, c.PrivateKey).err} :
         data' = RecordCert(data, domain, cr)
  /\ dataMu' = "mutate"
  /\ dataVer' = dataVer + 1
  /\ UNCHANGED <<dataCh, writerVars, fails, nAttempt, jVer, fileVer>>

\* A mutateData that raises the dirty signal only while the writer is idle.
MutateSignalIdleOnly ==
  /\ ~crashed /\ dataMu = "mutate"
  /\ dataCh' = IF wPc = "recv" THEN 1 ELSE dataCh
  /\ dataMu' = ""
  /\ UNCHANGED <<data, writerVars, verVars>>

\* mutateData, lines 388-391 and the deferred unlock.
MutateSignal ==
  /\ ~crashed /\ dataMu = "mutate"
  /\ dataCh' = TrySend(dataCh)
  /\ dataMu' = ""
  /\ UNCHANGED <<data, writerVars, verVars>>

\* A receive that leaves the dirty signal in the channel.
WriterRecvKeep ==
  /\ ~crashed /\ wPc = "recv" /\ dataCh = 1
  /\ wPc' = "encode"
  /\ UNCHANGED <<dataVars, j, tmp, file, sleeping, crashed, verVars>>

\* dataWriter, line 303: wait for a dirty signal.
WriterRecv ==
  /\ ~crashed /\ wPc = "recv" /\ dataCh = 1
  /\ dataCh' = 0
  /\ wPc' = "encode"
  /\ UNCHANGED <<data, dataMu, j, tmp, file, sleeping, crashed, verVars>>

\* An encode that writes the bytes of the last failed commit again.
EncodeStateKeep ==
  /\ ~crashed /\ wPc = "encode" /\ dataMu = ""
  /\ j' = IF j = <<>> \/ fileVer = jVer THEN MarshalIndent(data) ELSE j
  /\ jVer' = dataVer
  /\ wPc' = "tempfile"
  /\ UNCHANGED <<dataVars, tmp, file, sleeping, crashed, fails, dataVer, fileVer>>

\* writeDataJSON, lines 319-323: encode the state under dataMu. The count of
\* the calls is left to the specification.
EncodeState ==
  /\ ~crashed /\ wPc = "encode" /\ dataMu = ""
  /\ j' = MarshalIndent(data)
  /\ jVer' = dataVer
  /\ wPc' = "tempfile"
  /\ UNCHANGED <<dataVars, tmp, file, sleeping, crashed, fails, dataVer, fileVer>>

WriterEncode == EncodeState /\ nAttempt' = nAttempt + 1

\* A step of writeDataJSON fails: the error is on its way back to dataWriter.
WriterFails ==
  /\ fails < MaxFails
  /\ fails' = fails + 1
  /\ wPc' = "failed"

\* writeDataJSON, lines 329-332: create the temporary file beside the path.
WriterTempFile ==
  /\ ~crashed /\ wPc = "tempfile"
  /\ \/ /\ tmp' = FileOf(<<>>)
        /\ wPc' = "write"
        /\ UNCHANGED fails
     \/ /\ WriterFails
        /\ UNCHANGED tmp
  /\ UNCHANGED <<dataVars, j, file, sleeping, crashed, nAttempt, dataVer, jVer, fileVer>>

\* f.Write, line 335: reports an error unless every byte was written.
WriteOKAlways(n, bytes) == TRUE
WriteOK(n, bytes) == n = Len(bytes)

\* writeDataJSON, lines 335-338: f.Write puts the bytes into the temporary
\* file, some more of them at each step; it returns once all are written, or
\* gives up with an error before that.
WriterWrite ==
  /\ ~crashed /\ wPc = "write"
  /\ \E n \in Len(tmp.bytes)..Len(j) :
       /\ tmp' = FileOf(SubSeq(j, 1, n))
       /\ \/ /\ WriteOK(n, j)
             /\ wPc' = "close"
             /\ UNCHANGED fails
          \/ /\ n > Len(tmp.bytes) /\ n < Len(j)
             /\ UNCHANGED <<wPc, fails>>
          \/ /\ ~WriteOK(n, j)
             /\ WriterFails
  /\ UNCHANGED <<dataVars, j, file, sleeping, crashed, nAttempt, dataVer, jVer, fileVer>>

\* writeDataJSON, lines 340-343: close the temporary file.
WriterClose ==
  /\ ~crashed /\ wPc = "close"
  /\ \/ wPc' = "rename" /\ UNCHANGED fails
     \/ WriterFails
  /\ UNCHANGED <<dataVars, j, tmp, file, sleeping, crashed, nAttempt, dataVer, jVer, fileVer>>

\* os.Rename: the new path holds what the old one held, the old one is gone.
Rename(old) == old

\* writeDataJSON, line 345 and the deferred os.Remove, which then finds no
\* temporary file: move the temporary file over the path.
WriterRename ==
  /\ ~crashed /\ wPc = "rename"
  /\ \/ /\ file' = Rename(tmp)
        /\ tmp' = NoFile
        /\ fileVer' = jVer
        /\ wPc' = "recv"
        /\ UNCHANGED fails
     \/ /\ WriterFails
        /\ UNCHANGED <<file, tmp, fileVer>>
  /\ UNCHANGED <<dataVars, j, sleeping, crashed, nAttempt, dataVer, jVer>>

\* dataWriter, line 308: one delayedDataWrite goroutine more.
ScheduleNone(n) == n
ScheduleRetry(n) == n + 1

\* writeDataJSON's deferred os.Remove on an error return, and dataWriter,
\* lines 306-309: drop the temporary file, start delayedDataWrite, loop.
WriterFailed ==
  /\ ~crashed /\ wPc = "failed"
  /\ tmp' = NoFile
  /\ sleeping' = ScheduleRetry(sleeping)
  /\ wPc' = "recv"
  /\ UNCHANGED <<dataVars, j, file, crashed, verVars>>

\* delayedDataWrite, lines 352-353, and mutateData, lines 383-386: the sleep
\* is over; take dataMu and apply the empty mutation.
DelayedWake ==
  /\ ~crashed /\ sleeping > 0 /\ dataMu = ""
  /\ sleeping' = sleeping - 1
  /\ dataMu' = "delayed"
  /\ UNCHANGED <<data, dataCh, wPc, j, tmp, file, crashed, verVars>>

\* mutateData, lines 388-391 and the deferred unlock, in delayedDataWrite.
DelayedSignal ==
  /\ ~crashed /\ dataMu = "delayed"
  /\ dataCh' = TrySend(dataCh)
  /\ dataMu' = ""
  /\ UNCHANGED <<data, writerVars, verVars>>

\* The process is killed: every goroutine stops where it is, the files stay.
Crash ==
  /\ ~crashed
  /\ crashed' = TRUE
  /\ UNCHANGED <<dataVars, wPc, j, tmp, file, sleeping, verVars>>

\* The steps of the dataWriter goroutine.
WriterStep ==
  \/ WriterRecv
  \/ WriterEncode
  \/ WriterTempFile
  \/ WriterWrite
  \/ WriterClose
  \/ WriterRename
  \/ WriterFailed

\* The steps of the callers of mutateData.
MutateStep ==
  \/ MutateInstall
  \/ MutateSignal
  \/ DelayedWake
  \/ DelayedSignal

\* The store started on any state document, with mutate-callers, the writer,
\* its delayed retries and a kill at any point.
PersistNext ==
  \/ MutateInstall
  \/ MutateSignal
  \/ DelayedWake
  \/ DelayedSignal
  \/ WriterRecv
  \/ WriterEncode
  \/ WriterTempFile
  \/ WriterWrite
  \/ WriterClose
  \/ WriterRename
  \/ WriterFailed
  \/ Crash

\* The store as init leaves it on no state document or on an earlier one
\* that holds at most the first initial domain of RestartSpec; no initial
\* domains, so that the engine has nothing to do.
PersistInit ==
  \E f \in {d \in DiskStates : DOMAIN readData(d).Certs \subseteq {"a.example"}} :
     ClientInit(f, <<>>)

PersistSpec == PersistInit /\ [][PersistNext /\ UNCHANGED <<engineVars, challengeVars, cacheVars>>]_vars

\* The same store, never killed; runnable goroutines are scheduled and the
\* sleep of delayedDataWrite ends.
PersistFairNext ==
  \/ MutateStep
  \/ WriterStep

PersistFairSpec ==
  /\ PersistInit
  /\ [][PersistFairNext /\ UNCHANGED <<engineVars, challengeVars, cacheVars>>]_vars
  /\ WF_vars(WriterStep /\ UNCHANGED <<engineVars, challengeVars, cacheVars>>)
  /\ WF_vars((MutateSignal \/ DelayedWake \/ DelayedSignal) /\ UNCHANGED <<engineVars, challengeVars, cacheVars>>)

\* The durable file holds the encoding of the in-memory state.
Durable == file = FileOf(MarshalIndent(data))

\* C6: no mutation is lost by coalescing. While a mutation is not yet covered
\* by an encode, a dirty signal is pending, or the writer has taken one and
\* has not encoded yet, or the mutator still holds the lock it signals under;
\* the encoded version never runs ahead of the mutations and catches up with
\* them again and again, so every mutation is eventually covered by a commit
\* attempt whose bytes encode a state at or after it; and once writes succeed
\* the durable file ends up equal to the last in-memory state.
C6_NoLostMutation ==
  /\ [](dataVer > jVer => (dataCh = 1 \/ wPc = "encode" \/ dataMu = "mutate"))
  /\ [][wPc = "encode" /\ wPc' # wPc => (j' = MarshalIndent(data) /\ jVer' = dataVer)]_vars
  /\ [](jVer <= dataVer)
  /\ []<>(jVer = dataVer)
  /\ <>[]Durable

\* A mutation made while the writer was past its encode, whose signal was
\* taken afterwards, has reached the file, with no failure on the way.
C6_Witness ==
  /\ dataVer = MaxMutations /\ fileVer = MaxMutations
  /\ fails = 0 /\ Durable
  /\ wPc = "recv" /\ dataCh = 0

\* Dirty signals raised and not yet turned into a commit attempt, and delayed
\* retries whose sleep is over.
Pending == dataCh + (IF wPc = "encode" THEN 1 ELSE 0)
Retried == fails - sleeping - (IF wPc = "failed" THEN 1 ELSE 0)

\* C14: mutations that complete before the writer drains the dirty signal are
\* covered by one commit attempt. Commit attempts made or pending never exceed
\* one for init's signal, one per mutation and one per delayed retry; every
\* attempt encodes the state with all mutations completed so far; when no
\* signal is pending and no mutation is under way nothing is left uncovered;
\* and mutations not yet covered are eventually covered, so N mutations
\* cause at least one attempt and at most N.
C14_AttemptCount ==
  /\ [](nAttempt + Pending <= 1 + dataVer + Retried)
  /\ [][nAttempt' # nAttempt =>
          (nAttempt' = nAttempt + 1 /\ jVer' = dataVer /\ j' = MarshalIndent(data))]_vars
  /\ []((Pending = 0 /\ dataMu = "") => jVer = dataVer)
  /\ (dataVer > jVer) ~> (jVer = dataVer)

\* Init's signal and every mutation were drained together: one commit
\* attempt, which succeeded, covers them all, and none is pending.
C14_Witness ==
  /\ dataVer = MaxMutations /\ nAttempt = 1 /\ fails = 0
  /\ fileVer = dataVer /\ Durable
  /\ Pending = 0 /\ wPc = "recv" /\ dataMu = ""

\* C15: the states committed to the file are in-memory states in the order
\* they were produced. The in-memory state changes only with a mutation,
\* which advances its version; an encode takes the current state and version;
\* the file changes only by a rename, which installs the encoded bytes and
\* their version; and neither the encoded nor the committed version ever
\* goes back, whether commits fail or delayed retries fire.
C15_CommitOrder ==
  /\ [][data' # data => dataVer' = dataVer + 1]_vars
  /\ [][dataVer' >= dataVer /\ jVer' >= jVer /\ fileVer' >= fileVer]_vars
  /\ [][(j' # j \/ jVer' # jVer) => (j' = MarshalIndent(data) /\ jVer' = dataVer)]_vars
  /\ [][(file' # file \/ fileVer' # fileVer) => (file' = FileOf(j) /\ fileVer' = jVer)]_vars
  /\ [](fileVer <= jVer /\ jVer <= dataVer)
  /\ [](fileVer = dataVer => Durable)

\* A commit failed after an earlier one had succeeded, a mutation came in
\* between, and the retry has committed the newer state.
C15_Witness ==
  /\ fails = MaxFails /\ nAttempt > MaxMutations
  /\ fileVer = MaxMutations /\ Durable /\ sleeping = 0
  /\ wPc = "recv" /\ dataCh = 0

\* C7: the file at the configured path is absent or holds the complete bytes
\* of one encoded state, at every step of writeDataJSON and after a kill at
\* any of them: it changes only by the rename, which installs the complete
\* bytes the writer encoded, and never once the process is killed.
C7_DurableFile ==
  /\ [](file.exists => (Decodes(file.bytes)
                          /\ MarshalIndent(DecodeFromJSON(file.bytes)) = file.bytes))
  /\ [](wPc \in {"tempfile", "write", "close", "rename"} => Decodes(j))
  /\ [][file' # file => (wPc = "rename" /\ ~crashed /\ file' = FileOf(j))]_vars

\* Killed after a partial write: the temporary file is truncated, the path
\* still holds the document committed before.
C7_Witness ==
  /\ crashed /\ wPc = "write"
  /\ tmp.exists /\ Len(tmp.bytes) = Len(j) - 1
  /\ fileVer >= 0 /\ jVer > fileVer
  /\ file.exists /\ file.bytes # j /\ Decodes(file.bytes)

\* C8: a failed commit is not retried at once. The writer starts exactly one
\* delayedDataWrite for it and goes back to waiting for dirty signals without
\* raising one itself; the delayed retry raises the dirty signal when its
\* sleep is over; and once commits succeed the durable file ends up holding
\* the in-memory state.
C8_DelayedRetry ==
  /\ [][wPc = "failed" /\ wPc' # wPc =>
          (wPc' = "recv" /\ sleeping' = sleeping + 1 /\ dataCh' = dataCh)]_vars
  /\ [][sleeping' > sleeping => wPc = "failed"]_vars
  /\ [][dataMu = "delayed" /\ dataMu' # dataMu => dataCh' = 1]_vars
  /\ [](sleeping + (IF wPc = "failed" THEN 1 ELSE 0) <= fails)
  /\ <>[]Durable

\* The retry of a failed commit is what wrote the file: the last mutation's
\* commit failed, no other signal was pending, and the file is current.
C8_Witness ==
  /\ fails = MaxFails /\ sleeping = 0 /\ dataMu = ""
  /\ dataVer = MaxMutations /\ jVer = dataVer /\ fileVer = dataVer
  /\ Durable /\ wPc = "recv" /\ dataCh = 0

\* ------------------------------------------------ the HTTP-01 challenge path
etcdPrefix == "/wile/acme/http"

\* path.Join: the elements joined by slashes, empty elements ignored. Hosts
\* and tokens hold no slash and no dot segment, so a path is its elements.
Join(elems) == SelectSeq(elems, LAMBDA e : e # "")

etcdKeyNoDomain(domain, token) == Join(<<etcdPrefix, token>>)
etcdKey(domain, token) == Join(<<etcdPrefix, domain, token>>)

\* Some other replica has a provider call on the challenge in progress. The
\* authority hands out a fresh token per challenge and the solver presents and
\* cleans it up in turn, so calls on one challenge do not overlap.
Busy(domain, token) ==
  \E r \in Replicas : prov[r].pc # "idle" /\ prov[r].domain = domain /\ prov[r].token = token

\* Present, lines 35-40, and CleanUp, lines 25-29: the provider is called.
ProviderCall(r, op, domain, token, keyAuth) ==
  /\ prov[r].pc = "idle" /\ ~Busy(domain, token)
  /\ prov' = [prov EXCEPT ![r] = [pc |-> "call", op |-> op, domain |-> domain,
                                     token |-> token, keyAuth |-> keyAuth]]
  /\ presented' = [presented EXCEPT ![<<domain, token>>] = NoKeyAuth]
  /\ UNCHANGED <<etcd, served>>

PresentCall == \E r \in Replicas, c \in Challenges, keyAuth \in KeyAuths :
                 ProviderCall(r, "Put", c[1], c[2], keyAuth)

CleanUpCall == \E r \in Replicas, c \in Challenges, keyAuth \in KeyAuths :
                 ProviderCall(r, "Delete", c[1], c[2], "")

\* etcd.Put, line 49, and etcd.Delete, line 31, at the cluster: the request
\* is applied, or it is lost or times out and is not.
EtcdApply(r) ==
  /\ prov[r].pc = "call"
  /\ \/ /\ etcd' = IF prov[r].op = "Put"
                     THEN MapSet(etcd, etcdKey(prov[r].domain, prov[r].token), prov[r].keyAuth)
                     ELSE MapDelete(etcd, etcdKey(prov[r].domain, prov[r].token))
        /\ prov' = [prov EXCEPT ![r].pc = "applied"]
     \/ /\ prov' = [prov EXCEPT ![r].pc = "failed"]
        /\ UNCHANGED etcd
  /\ UNCHANGED <<served, presented>>

\* Present, line 50, and CleanUp, line 32: the call returns, nil when the
\* request was applied and answered, an error when it was not applied or its
\* answer did not arrive within the timeout.
ProviderReturn(r) ==
  /\ prov[r].pc \in {"applied", "failed"}
  /\ \E err \in BOOLEAN :
       /\ prov[r].pc = "failed" => err
       /\ presented' =
            IF ~err /\ prov[r].op = "Put"
            THEN [presented EXCEPT ![<<prov[r].domain, prov[r].token>>] =
                    [keyAuth |-> prov[r].keyAuth, by |-> r]]
            ELSE presented
  /\ prov' = [prov EXCEPT ![r] = IdleProvider]
  /\ UNCHANGED <<etcd, served>>

\* etcd.Get, line 65: an error, or the key-value pairs stored under the key.
Kvs(key) == IF key \in DOMAIN etcd THEN <<etcd[key]>> ELSE <<>>

\* ServeHTTP, lines 53-77, on replica r. Indexing Kvs[0] of an empty result
\* panics: net/http recovers, writes no response and drops the connection.
ServeHTTP(r, method, prefix, host, token) ==
  /\ served = NoRequest
  /\ LET req == [NoRequest EXCEPT !.replica = r, !.method = method, !.prefix = prefix,
                                    !.host = host, !.token = token]
         key == etcdKey(host, token)
     IN  IF method # "GET" \/ ~prefix
         THEN served' = [req EXCEPT !.status = StatusNotFound]
         ELSE \E err \in BOOLEAN :
                served' =
                  IF err THEN [req EXCEPT !.readErr = TRUE, !.status = StatusNotFound]
                  ELSE IF Len(Kvs(key)) < 1 THEN [req EXCEPT !.panic = TRUE]
                  ELSE [req EXCEPT !.status = StatusOK, !.body = Kvs(key)[1]]
  /\ UNCHANGED <<etcd, prov, presented>>

\* A request arrives at some replica.
Serve == \E r \in Replicas, method \in Methods, prefix \in BOOLEAN,
            host \in Domains, token \in RequestTokens :
           ServeHTTP(r, method, prefix, host, token)

\* The response, if any, has gone out.
ResponseSent ==
  /\ served # NoRequest
  /\ served' = NoRequest
  /\ UNCHANGED <<etcd, prov, presented>>

ChallengeNext ==
  \/ PresentCall
  \/ CleanUpCall
  \/ \E r \in Replicas : EtcdApply(r)
  \/ \E r \in Replicas : ProviderReturn(r)
  \/ Serve
  \/ ResponseSent

ChallengeInit == ClientInit(NoFile, <<>>)

ChallengeSpec ==
  ChallengeInit /\ [][ChallengeNext /\ UNCHANGED <<engineVars, dataVars, persistVars, cacheVars>>]_vars

\* The step that answers a challenge request for host and token.
Answers(host, token) ==
  /\ served = NoRequest /\ served' # NoRequest
  /\ served'.method = "GET" /\ served'.prefix
  /\ served'.host = host /\ served'.token = token

\* C9, as stated: after Present(d, t, v) completed and before any CleanUp(d, t),
\* a challenge request for host d and token t, on any replica, is answered
\* with body v.
C9_AnyReplicaAsStated ==
  [][\A c \in Challenges :
       (Answers(c[1], c[2]) /\ presented[c] # NoKeyAuth) =>
         (served'.status = StatusOK /\ served'.body = presented[c].keyAuth)]_vars

\* C9, amended: after Present(d, t, v) returned nil and before any later
\* provider call on (d, t), a challenge request for host d and token t, on
\* any replica, is answered with body v when the read of the store succeeds,
\* and with not-found when the read fails.
C9_AnyReplica ==
  [][\A c \in Challenges :
       (Answers(c[1], c[2]) /\ presented[c] # NoKeyAuth) =>
         IF served'.readErr
         THEN served'.status = StatusNotFound /\ served'.body = ""
         ELSE served'.status = StatusOK /\ served'.body = presented[c].keyAuth]_vars

\* A replica answered with the key authorization another replica presented,
\* while the other domain's challenge under the same token holds another one.
C9_Witness ==
  /\ served.status = StatusOK /\ served.token \in Tokens
  /\ presented[<<served.host, served.token>>].keyAuth = served.body
  /\ presented[<<served.host, served.token>>].by \notin {"", served.replica}
  /\ \E d \in Domains \ {served.host} :
       presented[<<d, served.token>>].keyAuth \notin {"", served.body}

\* C10: a challenge request whose key the store does not hold, or whose read
\* of the store fails, is answered with not-found and nothing else.
C10_NotFound ==
  [][\A host \in Domains, token \in RequestTokens :
       (Answers(host, token) /\ (served'.readErr \/ etcdKey(host, token) \notin DOMAIN etcd)) =>
         (served'.status = StatusNotFound /\ ~served'.panic)]_vars

\* ------------------------------------------------ the encrypted cache
\* hashKey, lines 93-101: the keyed hash of the logical key, base32 encoded;
\* distinct keys have distinct hashes.
hashKey(key) == [k1 |-> "hmac-k1", k2 |-> "hmac-k2"][key]

\* aead.Seal(nil, nonce, data, additionalData): the encrypted bytes, then the tag.
Seal(nonce, plaintext, additionalData) ==
  [i \in 1..Len(plaintext) |-> CipherByte(plaintext[i])]
    \o <<Tag(nonce, plaintext, additionalData)>>

OpenFailed == [ok |-> FALSE, data |-> <<>>]

\* A decryption that does not check the tag.
OpenUnauthenticated(nonce, ciphertext, additionalData) ==
  IF Len(ciphertext) < 1 THEN OpenFailed
  ELSE [ok |-> TRUE,
        data |-> [i \in 1..(Len(ciphertext) - 1) |-> ciphertext[i].v[1]]]

\* aead.Open(nil, nonce, ciphertext, additionalData): the plaintext when the
\* tag authenticates nonce, ciphertext and additional data, an error otherwise.
Open(nonce, ciphertext, additionalData) ==
  IF Len(ciphertext) < 1 THEN OpenFailed
  ELSE LET body == SubSeq(ciphertext, 1, Len(ciphertext) - 1)
           plaintext == [i \in 1..Len(body) |-> body[i].v[1]]
       IN  IF /\ \A i \in 1..Len(body) : body[i].kind = "cipher"
              /\ \A i \in 1..Len(nonce) : nonce[i].kind = "nonce"
              /\ ciphertext[Len(ciphertext)].kind = "tag"
              /\ ciphertext[Len(ciphertext)] = Tag(nonce, plaintext, additionalData)
           THEN [ok |-> TRUE, data |-> plaintext]
           ELSE OpenFailed

\* NewEtcdCache as main calls it: the prefix of the cache's keys.
cachePrefix == "/wile/acme/http"

\* EtcdCache.etcdKey, lines 43-45.
EtcdCacheKey(key) == Join(<<cachePrefix, key>>)

\* EtcdCache.Get, line 23: the key the read is made under.
EtcdCacheGetKey(key) == <<key>>

\* Get has returned to its caller.
CacheReturn ==
  /\ cacheOp # NoCacheOp
  /\ cacheOp' = NoCacheOp
  /\ UNCHANGED <<etcd, cached, nTamper>>

\* EncryptingCache.Get, lines 58-71, over EtcdCache.Get, lines 22-31.
CacheGet(key) ==
  /\ cacheOp = NoCacheOp
  /\ LET op == [NoCacheOp EXCEPT !.op = "Get", !.key = key]
         kvs == Kvs(EtcdCacheGetKey(hashKey(key)))
     IN  \E readErr \in BOOLEAN :
           cacheOp' =
             IF readErr THEN [op EXCEPT !.implErr = "read", !.err = "read"]
             ELSE IF Len(kvs) = 0 THEN [op EXCEPT !.implErr = "miss", !.err = "miss"]
             ELSE LET val == kvs[1]
                      n == NonceSize
                  IN  IF Len(val) < n THEN [op EXCEPT !.val = val, !.err = "too small"]
                      ELSE LET opened == Open(SubSeq(val, 1, n),
                                              SubSeq(val, n + 1, Len(val)), key)
                           IN  IF opened.ok
                               THEN [op EXCEPT !.val = val, !.data = opened.data]
                               ELSE [op EXCEPT !.val = val, !.err = "authentication failed"]
  /\ UNCHANGED <<etcd, cached, nTamper>>

\* EncryptingCache.Put, lines 73-87, over EtcdCache.Put, lines 33-36: the
\* nonce is drawn, the value sealed and put, or the put fails and the store
\* is as before.
CachePut(key, payload) ==
  /\ cacheOp = NoCacheOp
  /\ \E nonce \in Nonces, putErr \in BOOLEAN :
       LET final == nonce \o Seal(nonce, payload, key)
       IN  /\ etcd' = IF putErr THEN etcd
                      ELSE MapSet(etcd, EtcdCacheKey(hashKey(key)), final)
           /\ UNCHANGED cacheOp
           /\ cached' = [cached EXCEPT ![key] =
                           IF putErr THEN cached[key]
                           ELSE [state |-> "put", data |-> payload]]
  /\ UNCHANGED nTamper

\* EncryptingCache.Delete, lines 89-91, over EtcdCache.Delete, lines 38-41.
CacheDelete(key) ==
  /\ cacheOp = NoCacheOp
  /\ \E delErr \in BOOLEAN :
       /\ etcd' = IF delErr THEN etcd ELSE MapDelete(etcd, EtcdCacheKey(hashKey(key)))
       /\ UNCHANGED cacheOp
       /\ cached' = [cached EXCEPT ![key] =
                       IF delErr THEN cached[key]
                       ELSE NothingCached]
  /\ UNCHANGED nTamper

\* One byte of a stored value changed.
FlipByte(b) ==
  IF b.kind = "tag" THEN BadTag
  ELSE [b EXCEPT !.v = <<IF b.v[1] = 1 THEN 0 ELSE 1>>]

\* What a stored value may be turned into: itself, the same with one byte
\* flipped, or a proper prefix of it.
Altered(val) ==
  {val} \cup {[val EXCEPT ![i] = FlipByte(val[i])] : i \in 1..Len(val)}
        \cup {SubSeq(val, 1, m) : m \in 0..(Len(val) - 1)}

\* The keys the cache writes and the keys it reads.
StoreKeys ==
  {EtcdCacheKey(hashKey(k)) : k \in CacheKeys} \cup {EtcdCacheGetKey(hashKey(k)) : k \in CacheKeys}

\* Another client of the store, or corruption in it, writes a key of the
\* cache: a value Put stored, verbatim or altered.
Corrupt ==
  /\ cacheOp = NoCacheOp /\ nTamper < MaxTampers
  /\ \E key \in StoreKeys, from \in CacheKeys :
       \E val \in UNION {Altered(v) : v \in Range(Kvs(EtcdCacheKey(hashKey(from))))} :
         /\ Kvs(key) # <<val>>
         /\ etcd' = MapSet(etcd, key, val)
  /\ nTamper' = nTamper + 1
  /\ UNCHANGED <<cacheOp, cached>>

CacheNext ==
  \/ \E key \in CacheKeys : CacheGet(key)
  \/ \E key \in CacheKeys, payload \in Payloads : CachePut(key, payload)
  \/ \E key \in CacheKeys : CacheDelete(key)
  \/ CacheReturn
  \/ Corrupt

CacheInit == ClientInit(NoFile, <<>>)

CacheSpec ==
  CacheInit
    /\ [][CacheNext /\ UNCHANGED <<engineVars, dataVars, persistVars, prov, served, presented>>]_vars

\* The step in which EncryptingCache.Get(key) is answered.
Gets(key) == cacheOp = NoCacheOp /\ cacheOp'.op = "Get" /\ cacheOp'.key = key

\* C11: Get(k) after Put(k, p), with no Put or Delete of k in between, returns
\* p; after a later Put(k, p2) it returns p2; after Delete(k), and before any
\* Put, it reports not-found. Stated for the cache main builds, over EtcdCache,
\* with the store read succeeding and no other writer of the store.
C11_RoundTrip ==
  [][\A k \in CacheKeys :
       (Gets(k) /\ nTamper = 0 /\ cacheOp'.implErr # "read") =>
         /\ cached[k].state = "put" =>
              (cacheOp'.err = "" /\ cacheOp'.data = cached[k].data)
         /\ cached[k].state = "none" => cacheOp'.err = "miss"]_vars

\* val is a nonce followed by what Seal gives for it, some plaintext and key.
Genuine(val, key) ==
  /\ Len(val) > NonceSize
  /\ \E plaintext \in Payloads \cup {<<0>>} :
       val = SubSeq(val, 1, NonceSize) \o Seal(SubSeq(val, 1, NonceSize), plaintext, key)

\* C12: besides success EncryptingCache.Get has three distinct outcomes: the
\* backend's not-found when the backend finds nothing under the key, "too
\* small" when the value found is shorter than the nonce, and authentication
\* failure when the value found is long enough and is not a nonce followed by
\* what was sealed with it under this logical key. A value is returned only
\* as the plaintext sealed in the value found, and a value found is never
\* reported as not-found.
C12_GetOutcomes ==
  [][\A k \in CacheKeys :
       Gets(k) =>
         /\ cacheOp'.implErr = "miss" => cacheOp'.err = "miss"
         /\ (cacheOp'.implErr = "" /\ Len(cacheOp'.val) < NonceSize) =>
              cacheOp'.err = "too small"
         /\ (cacheOp'.implErr = "" /\ Len(cacheOp'.val) >= NonceSize
               /\ ~Genuine(cacheOp'.val, k)) => cacheOp'.err = "authentication failed"
         /\ cacheOp'.err = "" =>
              /\ Genuine(cacheOp'.val, k)
              /\ cacheOp'.val = SubSeq(cacheOp'.val, 1, NonceSize)
                                  \o Seal(SubSeq(cacheOp'.val, 1, NonceSize), cacheOp'.data, k)
         /\ cacheOp'.implErr = "" => cacheOp'.err # "miss"]_vars

\* Get found a value sealed under the other logical key, byte for byte as
\* Put wrote it, and reported an authentication failure.
C12_Witness ==
  /\ cacheOp.op = "Get" /\ cacheOp.err = "authentication failed"
  /\ \E k \in CacheKeys \ {cacheOp.key} :
       /\ Genuine(cacheOp.val, k)
       /\ cached[k] = [state |-> "put", data |-> <<1>>]
       /\ Kvs(EtcdCacheKey(hashKey(k))) = <<cacheOp.val>>

\* C22: EtcdCache.Get, Put and Delete address the same store key for the same
\* logical key, the prefix joined with the key: the key Get reads is the key
\* Put and Delete write, so that with no other writer of the store and the
\* read succeeding Get returns the value of the last Put that was not
\* deleted since, and the cache miss when there is none.
C22_SameStoreKey ==
  [][\A k \in CacheKeys :
       (Gets(k) /\ nTamper = 0 /\ cacheOp'.implErr # "read") =>
         LET stored == Kvs(EtcdCacheKey(hashKey(k)))
         IN  /\ stored = <<>> <=> cacheOp'.implErr = "miss"
             /\ stored # <<>> => cacheOp'.val = stored[1]]_vars

\* The authority call in flight returns an error.
CallFails == pc \in {"obtain", "renew"} /\ pc' \notin {pc, "accept"}

\* The loop decides on the domain whose turn it is.
Turn == pc = "iter" /\ idx <= Len(loopDomains) /\ (pc' # pc \/ idx' # idx)

\* C18: a failed authority call leaves the table and the persisted state as
\* they were and raises no dirty signal, and the loop goes on to the next
\* domain of the cycle. A cycle ends only when its list is exhausted, and at
\* each turn the decision is taken from the table and the clock alone, so a
\* domain that still has no entry is acquired again and one that is within
\* the renewal threshold is renewed again. The loop never panics, and every
\* cycle comes to its end.
C18_FailureIsRetried ==
  /\ [][CallFails =>
          /\ certs' = certs /\ data' = data /\ dataCh' = dataCh
          /\ pc' = "iter" /\ idx' = idx + 1 /\ loopDomains' = loopDomains]_vars
  /\ [][(pc # "recv" /\ pc' = "recv") => (pc = "iter" /\ idx > Len(loopDomains))]_vars
  /\ [][Turn =>
          IF loopDomains[idx] \notin DOMAIN certs THEN pc' = "createCert"
          ELSE IF certs[loopDomains[idx]].Leaf.NotAfter - now <= RenewBefore
               THEN pc' = "renewCert"
               ELSE pc' = "iter" /\ idx' = idx + 1]_vars
  /\ [](pc # "panic")
  /\ (pc = "iter") ~> (pc = "recv")

\* In the second cycle over the same two domains the loop is acquiring the
\* second one again: neither got an entry in the first cycle, nor the first
\* one in this cycle, and nothing was persisted.
C18_Witness ==
  /\ nCycle = 2 /\ nSet = 1 /\ nTick = 1
  /\ pc = "obtain" /\ idx = 2 /\ Len(loopDomains) = 2
  /\ DOMAIN certs = {} /\ DOMAIN data.Certs = {}

\* C16: in every reachable state, every domain with an entry both in the
\* in-memory persisted state and in the published table has the same
\* certificate and key bytes in both.
C16_TableMatchesData ==
  \A d \in DOMAIN certs \cap DOMAIN data.Certs :
    /\ certs[d].Certificate = data.Certs[d].Certificate
    /\ certs[d].PrivateKey = data.Certs[d].PrivateKey

\* C17: every record of the table had a leaf whose not-after was in the
\* future when it was put there: the records init loads from the persisted
\* state, and every record a later step adds or replaces.
C17_FreshWhenInstalled ==
  /\ \A d \in DOMAIN certs : certs[d].Leaf.NotAfter > now
  /\ [][\A d \in DOMAIN certs' :
          (d \notin DOMAIN certs \/ certs'[d] # certs[d]) =>
            certs'[d].Leaf.NotAfter > now]_vars

\* The resource handed to acceptNewCertResource is not a PEM chain with its key.
Malformed(cr) == cr.Certificate.kind # "pem" \/ cr.PrivateKey.kind # "key"

\* C19: when the resource the authority returned does not parse,
\* acceptNewCertResource returns without changing the table or the persisted
\* state and without raising the dirty signal, the loop goes on, and
\* GetCertificate answers every server name from the table as before.
C19_ParseFailureFrame ==
  [][(pc = "accept" /\ pc' # pc /\ Malformed(res)) =>
       /\ certs' = certs /\ data' = data /\ dataCh' = dataCh /\ dataMu' = dataMu
       /\ newCerts' = newCerts
       /\ pc' = "iter" /\ idx' = idx + 1
       /\ \A name \in ServerNames : Lookup(certs', name) = Lookup(certs, name)]_vars

\* A renewal came back malformed for a domain that has a table entry, while
\* a handshake for that domain is looking its certificate up.
C19_Witness ==
  /\ pc = "accept" /\ Malformed(res)
  /\ loopDomains[idx] \in DOMAIN certs
  /\ loopDomains[idx] \in DOMAIN data.Certs
  /\ \E r \in Readers : readers[r].pc = "lookup" /\ readers[r].name = loopDomains[idx]

\* An authority call is in flight, or the install of its result is under way.
InCall == pc \in {"obtain", "renew"}
Installing == pc \in {"accept", "store", "mutateData", "signal"}

\* C20: one authority interaction at a time. The registration is complete in
\* every state of the running engine. The loop starts a call only at the turn
\* of a domain, with no call in flight and no install under way; a call ends
\* only by returning, and its install runs to its end before the loop takes
\* the next turn; and a SetDomains call or a timer tick that arrives
\* meanwhile changes nothing of the loop.
C20_OneCallAtATime ==
  /\ [](data.Reg)
  /\ [][(InCall' /\ pc' # pc) =>
          /\ pc \in {"createCert", "renewCert"}
          /\ newCerts = EmptyMap /\ dataMu # "loop"
          /\ idx' = idx /\ loopDomains' = loopDomains]_vars
  /\ [][(InCall /\ pc' # pc) =>
          (loopDomains' = loopDomains
           /\ ((pc' = "accept" /\ idx' = idx) \/ (pc' = "iter" /\ idx' = idx + 1)))]_vars
  /\ [][(Installing /\ pc' # pc) =>
          (loopDomains' = loopDomains
           /\ ((Installing' /\ idx' = idx) \/ (pc' = "iter" /\ idx' = idx + 1)))]_vars
  /\ [][(domains' # domains \/ setPc' # setPc \/ tickCh' > tickCh) =>
          UNCHANGED <<pc, idx, res, loopDomains, newCerts>>]_vars

\* While the call for the first domain of a cycle is in flight, a timer tick
\* has filled the wake slot and a SetDomains call has stored another list.
C20_Witness ==
  /\ pc = "obtain" /\ idx = 1
  /\ tickCh = 1 /\ setPc = "send" /\ domains # loopDomains

\* C23: the "consistency error" panic of renewCert is unreachable. Whenever
\* the loop is about to decide on a domain, and up to the point where a new
\* certificate is published, every domain of the table has a stored resource
\* in the in-memory persisted state; so a domain the loop decides to renew
\* has one, whatever state document the engine started on and whatever
\* SetDomains calls, installs and failures came before.
C23_RenewHasStored ==
  /\ pc # "panic"
  /\ pc \in {"renewCert", "renew"} => loopDomains[idx] \in DOMAIN data.Certs
  /\ pc \notin {"mutateData", "signal"} => DOMAIN certs \subseteq DOMAIN data.Certs
  /\ pc \in {"mutateData", "signal"} =>
       DOMAIN certs \subseteq DOMAIN data.Certs \cup {loopDomains[idx]}

\* A renewal call is in flight for a domain installed in this run, after a
\* SetDomains call, on a state document that held an unparseable certificate
\* for the other domain, which has no table entry.
C23_Witness ==
  /\ pc = "renew" /\ loopDomains[idx] = "a.example"
  /\ data.Certs["a.example"].CertResource.Certificate = Pem(RenewBefore + 1)
  /\ domains # loopDomains
  /\ "b.example" \in DOMAIN data.Certs /\ "b.example" \notin DOMAIN certs
  /\ data.Certs["b.example"].Certificate = JunkBytes

\* ------------------------------------------------ restart (RestartSpec)
\* Config.InitialDomains of the engine that is restarted.
RestartDomains == <<"a.example">>

\* Nothing is in flight: the loop and the writer wait for their signals, no
\* signal is pending, and the file holds the in-memory state.
Quiescent ==
  /\ pc = "recv" /\ tickCh = 0 /\ setPc = "idle"
  /\ wPc = "recv" /\ dataCh = 0 /\ dataMu = "" /\ sleeping = 0
  /\ Durable

\* The process is stopped once nothing is in flight and started again with
\* the same configuration: init, lines 197-267, on the file as it is.
Restart ==
  /\ Alive /\ Quiescent
  /\ data' = Registered(readData(file))
  /\ dataCh' = 1
  /\ certs' = InitialCerts(readData(file), RestartDomains)
  /\ domains' = RestartDomains
  /\ tickCh' = 1
  /\ loopDomains' = <<>>
  /\ cycleQuiet' = TRUE
  /\ seen' = FALSE
  /\ j' = <<>>
  /\ UNCHANGED <<now, domainsMu, setPc, pc, idx, res, newCerts, readers, dataMu, countVars,
                 wPc, tmp, file, sleeping, crashed, verVars, challengeVars, cacheVars>>

\* The domains the server asks for after startup: one more than configured.
LaterDomains == <<"a.example", "b.example">>

\* The engine with its writer, and restarts.
RestartNext ==
  \/ (SetDomainsStore(LaterDomains) \/ SetDomainsDone)
       /\ UNCHANGED <<countVars, persistVars, challengeVars, cacheVars>>
  \/ (LoopRecv \/ LoopStart \/ LoopIter) /\ UNCHANGED <<persistVars, challengeVars, cacheVars>>
  \/ (CreateCertCall \/ ObtainReturn) /\ UNCHANGED <<persistVars, challengeVars, cacheVars>>
  \/ (RenewCertCall \/ RenewReturn) /\ UNCHANGED <<persistVars, challengeVars, cacheVars>>
  \/ (AcceptParse \/ StoreCerts) /\ UNCHANGED <<persistVars, challengeVars, cacheVars>>
  \/ (AcceptMutateData \/ AcceptSignal) /\ UNCHANGED <<persistVars, challengeVars, cacheVars>>
  \/ (WriterRecv \/ (EncodeState /\ UNCHANGED nAttempt) \/ WriterTempFile)
       /\ UNCHANGED <<engineVars, challengeVars, cacheVars>>
  \/ (WriterWrite \/ WriterClose \/ WriterRename \/ WriterFailed)
       /\ UNCHANGED <<engineVars, challengeVars, cacheVars>>
  \/ (DelayedWake \/ DelayedSignal) /\ UNCHANGED <<engineVars, challengeVars, cacheVars>>
  \/ Restart

RestartSpec == ClientInit(NoFile, RestartDomains) /\ [][RestartNext]_vars

\* C13: a restart after a successful commit of the persisted state rebuilds
\* the table it replaces: every domain with a table entry before the restart,
\* those added by SetDomains after startup included, has an entry with the
\* same certificate and key bytes after init.
C13_RestartTable ==
  [][Restart =>
       \A d \in DOMAIN certs :
         /\ d \in DOMAIN certs'
         /\ certs'[d].Certificate = certs[d].Certificate
         /\ certs'[d].PrivateKey = certs[d].PrivateKey]_vars

\* ------------------------------------------- wake-up coalescing (WakeSpec)
\* The engine on a fresh state document with its calls, ticks and cycles
\* counted, so that the run has a last SetDomains call; the clock stands.
CountedSetDomains ==
  /\ nSet < MaxSetCalls
  /\ \E list \in DomainLists : SetDomainsStore(list)
  /\ nSet' = nSet + 1
  /\ UNCHANGED <<nTick, nCycle>>

CountedTick ==
  /\ nTick < MaxTicks
  /\ TickFire
  /\ nTick' = nTick + 1
  /\ UNCHANGED <<nSet, nCycle>>

CountedLoopStart ==
  /\ LoopReadDomains
  /\ nCycle' = nCycle + 1
  /\ UNCHANGED <<nSet, nTick>>

\* The steps of the domainLoop goroutine.
LoopStep ==
  \/ LoopRecv
  \/ CountedLoopStart
  \/ LoopIter
  \/ CreateCertCall
  \/ ObtainReturn
  \/ RenewCertCall
  \/ RenewReturn
  \/ AcceptParse
  \/ StoreCerts
  \/ AcceptMutateData
  \/ AcceptSignal

WakeNext ==
  \/ CountedSetDomains
  \/ SetDomainsDone
  \/ CountedTick
  \/ LoopStep

\* A runnable goroutine is scheduled and the authority's calls return: the
\* loop keeps taking steps, and a SetDomains call in progress completes.
WakeSpec ==
  /\ FreshInit
  /\ [][WakeNext /\ UNCHANGED <<persistVars, challengeVars, cacheVars>>]_vars
  /\ WF_vars(LoopStep /\ UNCHANGED <<persistVars, challengeVars, cacheVars>>)
  /\ WF_vars(SetDomainsDone /\ UNCHANGED <<persistVars, challengeVars, cacheVars>>)

\* ----------------------------------- the table and its readers (TableSpec)
\* The engine with TLS handshakes reading the table while the loop installs
\* certificates, on a first run; the desired list stays the initial one and
\* the clock stands.
TableNext ==
  \/ GetCertificate
  \/ Tick
  \/ LoopRecv
  \/ LoopStart
  \/ LoopIter
  \/ CreateCertCall
  \/ ObtainReturn
  \/ RenewCertCall
  \/ RenewReturn
  \/ AcceptParse
  \/ StoreCerts
  \/ AcceptMutateData
  \/ AcceptSignal

TableSpec == FreshInit /\ [][TableNext /\ UNCHANGED <<persistVars, challengeVars, cacheVars>>]_vars

\* The lists the server replaces the desired list by: each drops a domain
\* that was desired before.
DropLists == {<<"b.example">>, <<>>}

\* The same engine, started with one desired domain, whose server replaces
\* the desired list at any time.
ServeNext ==
  \/ (\E list \in DropLists : SetDomainsStore(list)) /\ UNCHANGED countVars
  \/ SetDomainsDone
  \/ TableNext

ServeSpec ==
  /\ ClientInit(NoFile, RestartDomains)
  /\ [][ServeNext /\ UNCHANGED <<persistVars, challengeVars, cacheVars>>]_vars

\* C24: the set of domains of the table never shrinks, so a GetCertificate
\* that loads the table once a domain has an entry returns a certificate for
\* it, also after a SetDomains call that drops the domain from the desired
\* list. The loop's list changes only where it reads c.domains at the start
\* of a cycle; the authority is called, and the table extended, only for a
\* domain of that list.
C24_TableNeverShrinks ==
  /\ [][\A d \in DOMAIN certs :
          d \in DOMAIN certs' /\ ~Lookup(certs', d).unknown]_vars
  /\ [][\A r \in Readers :
          (Returns(r) /\ readers[r].name \in DOMAIN readers[r].snap) =>
            ~readers'[r].unknown /\ ~readers'[r].result.err]_vars
  /\ [](\A r \in Readers : readers[r].pc = "lookup" =>
           DOMAIN readers[r].snap \subseteq DOMAIN certs)
  /\ [][loopDomains' # loopDomains => (pc = "domains" /\ loopDomains' = domains)]_vars
  /\ [](InCall => idx \in 1..Len(loopDomains))
  /\ [][certs' # certs =>
          \E d \in Range(loopDomains) : DOMAIN certs' = DOMAIN certs \cup {d}]_vars

\* A handshake for a domain that SetDomains has dropped from the desired list
\* reads a table that still holds it, after the loop ran a cycle on the new
\* list and installed that list's domain.
C24_Witness ==
  /\ domains = <<"b.example">> /\ setPc = "idle" /\ seen
  /\ loopDomains = domains /\ pc = "recv"
  /\ DOMAIN certs = {"a.example", "b.example"}
  /\ \E r \in Readers :
       /\ readers[r].pc = "lookup" /\ readers[r].name = "a.example"
       /\ readers[r].snap = certs

\* C5: the cycles started never outnumber the SetDomains calls plus the ticker
\* firings; a completed call whose list the loop has not read yet has a wake
\* signal pending or the loop about to read; once the loop has read after the
\* last call it iterates exactly that call's list; and after every call such
\* a cycle eventually starts, so at least one cycle runs.
C5_Coalescing ==
  /\ [](nCycle <= nSet + nTick)
  /\ []((~seen /\ setPc = "idle") => (tickCh = 1 \/ pc = "domains"))
  /\ [](seen => loopDomains = domains)
  /\ (~seen ~> seen)
  /\ <>(nCycle >= 1)

\* Every SetDomains call of the run was absorbed by one wake signal: the loop
\* has read the last list in its first cycle.
C5_Witness ==
  /\ nSet = MaxSetCalls /\ nTick = 0 /\ nCycle = 1
  /\ seen /\ Len(loopDomains) = 2

\* ------------------------------------------------------ the decision loop
\* Days of validity left on the table entry of domain d.
ValidFor(d) == certs[d].Leaf.NotAfter - now

\* C3: at a domain's turn in a cycle, a table entry with more than 30 days left
\* means no authority call and no change (the loop moves on to the next
\* domain), an entry with 30 days or less (expired included) means renewCert
\* is entered and reaches the RenewCertificate call, and no entry means
\* createCert is entered.
C3_RenewalThreshold ==
  [][/\ (pc = "iter" /\ idx <= Len(loopDomains) /\ <<pc, idx>>' # <<pc, idx>>) =>
          LET d == loopDomains[idx]
          IN  /\ d \notin DOMAIN certs => (pc' = "createCert" /\ idx' = idx)
              /\ (d \in DOMAIN certs /\ ValidFor(d) > 30) =>
                   (pc' = "iter" /\ idx' = idx + 1 /\ UNCHANGED <<certs, data, dataCh>>)
              /\ (d \in DOMAIN certs /\ ValidFor(d) <= 30) =>
                   (pc' = "renewCert" /\ idx' = idx)
     /\ (pc = "renewCert" /\ pc' # pc) => pc' = "renew"
    ]_vars

\* A renewal call in flight for a certificate with exactly 30 days left.
C3_Witness ==
  /\ pc = "renew"
  /\ loopDomains[idx] \in DOMAIN certs
  /\ ValidFor(loopDomains[idx]) = 30

\* C4: every authority call and every change of the table, of the in-memory
\* persisted state or of the dirty signal happens in a cycle in which some
\* domain had no entry or an entry with 30 days or less left; a cycle whose
\* domains all have more than 30 days left makes none.
C4_QuietCycle ==
  [][(\/ certs' # certs
      \/ data' # data
      \/ dataCh' # dataCh
      \/ (pc' # pc /\ pc' \in {"createCert", "obtain", "renewCert", "renew"}))
       => ~cycleQuiet']_vars

\* A cycle over two domains has ended and neither needed action.
C4_Witness ==
  /\ pc = "iter"
  /\ Len(loopDomains) = 2
  /\ idx > Len(loopDomains)
  /\ cycleQuiet

\* ------------------------------------------------- startup (StartupSpec)
\* Config.InitialDomains of the engine that starts.
StartupDomains == <<"a.example">>

\* What init may find at Config.Path: nothing, a state document without a
\* registration, or the document of an earlier run.
StartupFiles ==
  {NoFile, FileOf(MarshalIndent(initData))}
    \cup {d \in DiskStates : DOMAIN readData(d).Certs = {"a.example"}}

\* NewClient is called: no goroutine runs, no channel exists, c.data and the
\* table are not set.
StartupInit(f) ==
  /\ now = 0
  /\ data = initData
  /\ dataCh = 0
  /\ dataMu = ""
  /\ certs = EmptyMap
  /\ domains = <<>>
  /\ domainsMu = ""
  /\ tickCh = 0
  /\ setPc = "readData"
  /\ pc = "off"
  /\ loopDomains = <<>>
  /\ idx = 0
  /\ res = NoRes
  /\ newCerts = EmptyMap
  /\ readers = [r \in Readers |-> IdleReader]
  /\ cycleQuiet = TRUE
  /\ nSet = 0
  /\ nTick = 0
  /\ nCycle = 0
  /\ seen = FALSE
  /\ wPc = "off"
  /\ j = <<>>
  /\ tmp = NoFile
  /\ file = f
  /\ sleeping = 0
  /\ crashed = FALSE
  /\ fails = 0
  /\ nAttempt = 0
  /\ dataVer = 0
  /\ jVer = -1
  /\ fileVer = -1
  /\ etcd = EmptyMap
  /\ prov = [r \in Replicas |-> IdleProvider]
  /\ served = NoRequest
  /\ presented = [c \in Challenges |-> NoKeyAuth]
  /\ cacheOp = NoCacheOp
  /\ cached = [k \in CacheKeys |-> NothingCached]
  /\ nTamper = 0

\* init, lines 198-215: the etcd client, readData and acme.NewClient; any of
\* them may fail, and init returns the error. data holds init's local d.
InitReadData ==
  /\ setPc = "readData"
  /\ \/ /\ data' = readData(file)
        /\ setPc' = IF readData(file).Reg THEN "start" ELSE "register"
     \/ /\ setPc' = "failed"
        /\ UNCHANGED data
  /\ UNCHANGED <<dataCh, dataMu, now, domains, domainsMu, tickCh, loopVars, tableVars,
                 readers, cycleVars, wakeVars, persistVars, challengeVars, cacheVars>>

\* init, lines 217-221: Register returns the registration or an error.
InitRegister ==
  /\ setPc = "register"
  /\ \/ /\ data' = Registered(data)
        /\ setPc' = "agree"
     \/ /\ setPc' = "failed"
        /\ UNCHANGED data
  /\ UNCHANGED <<dataCh, dataMu, now, domains, domainsMu, tickCh, loopVars, tableVars,
                 readers, cycleVars, wakeVars, persistVars, challengeVars, cacheVars>>

\* init, lines 223-226: AgreeToTOS returns nil or an error.
InitAgreeToTOS ==
  /\ setPc = "agree"
  /\ setPc' \in {"start", "failed"}
  /\ UNCHANGED <<dataVars, now, domains, domainsMu, tickCh, loopVars, tableVars,
                 readers, cycleVars, wakeVars, persistVars, challengeVars, cacheVars>>

\* An init that starts the writer without the first dirty signal.
InitStartNoSignal ==
  /\ setPc = "start"
  /\ wPc' = "recv"
  /\ certs' = InitialCerts(data, StartupDomains)
  /\ domains' = StartupDomains
  /\ seen' = FALSE
  /\ nSet' = nSet + 1
  /\ tickCh' = TrySend(tickCh)
  /\ pc' = "recv"
  /\ setPc' = "idle"
  /\ UNCHANGED <<data, dataCh, dataMu, now, domainsMu, loopDomains, idx, res, newCerts, readers,
                 cycleVars, nTick, nCycle, j, tmp, file, sleeping, crashed, verVars,
                 challengeVars, cacheVars>>

\* init, lines 229-266: set c.data, make dataCh with the first dirty signal in
\* it and start dataWriter; store the table of the initial certificates; make
\* tickCh, start the ticker, call SetDomains and start domainLoop.
InitStart ==
  /\ setPc = "start"
  /\ dataCh' = 1
  /\ wPc' = "recv"
  /\ certs' = InitialCerts(data, StartupDomains)
  /\ domains' = StartupDomains
  /\ seen' = FALSE
  /\ nSet' = nSet + 1
  /\ tickCh' = TrySend(tickCh)
  /\ pc' = "recv"
  /\ setPc' = "idle"
  /\ UNCHANGED <<data, dataMu, now, domainsMu, loopDomains, idx, res, newCerts, readers,
                 cycleVars, nTick, nCycle, j, tmp, file, sleeping, crashed, verVars,
                 challengeVars, cacheVars>>

\* The steps of dataWriter and of its delayed retries beside the engine.
StartupWriter ==
  /\ \/ WriterRecv
     \/ EncodeState /\ UNCHANGED nAttempt
     \/ WriterTempFile
     \/ WriterWrite
     \/ WriterClose
     \/ WriterRename
     \/ WriterFailed
     \/ DelayedWake
     \/ DelayedSignal
  /\ UNCHANGED <<engineVars, challengeVars, cacheVars>>

\* The steps of domainLoop beside the writer.
StartupLoop ==
  /\ \/ LoopRecv
     \/ LoopStart
     \/ LoopIter
     \/ CreateCertCall
     \/ ObtainReturn
     \/ RenewCertCall
     \/ RenewReturn
     \/ AcceptParse
     \/ StoreCerts
     \/ AcceptMutateData
     \/ AcceptSignal
  /\ UNCHANGED <<persistVars, challengeVars, cacheVars>>

\* The ticker runs once init has started it.
StartupTick == pc # "off" /\ Tick /\ UNCHANGED <<persistVars, challengeVars, cacheVars>>

StartupNext ==
  \/ InitReadData
  \/ InitRegister
  \/ InitAgreeToTOS
  \/ InitStart
  \/ StartupTick
  \/ StartupLoop
  \/ StartupWriter

\* NewClient from its call on; runnable goroutines are scheduled, the
\* authority's calls return, the sleep of delayedDataWrite ends, and a
\* goroutine waiting for dataMu gets it when it is released again and again.
StartupSpec ==
  /\ \E f \in StartupFiles : StartupInit(f)
  /\ [][StartupNext]_vars
  /\ WF_vars(StartupLoop)
  /\ SF_vars(StartupWriter)

\* The file at Config.Path holds a state document with a registration.
AccountOnFile == file.exists /\ Decodes(file.bytes) /\ DecodeFromJSON(file.bytes).Reg

\* C21: started on a persisted state without a registration, init registers
\* an account and then agrees to the terms before the loop runs and so before
\* any acquisition or renewal; once init has started the goroutines the
\* account state reaches the durable file, whether or not a certificate is
\* ever installed; and when Register or AgreeToTOS fails init fails: no
\* decision loop, ticker or writer is started, no signal is raised and the
\* file stays as it was.
C21_RegisterFirst ==
  /\ [][(setPc = "readData" /\ setPc' = "start") => readData(file).Reg]_vars
  /\ [][(setPc = "register" /\ setPc' # setPc) =>
          ((setPc' = "agree" /\ data'.Reg) \/ setPc' = "failed")]_vars
  /\ [][(setPc = "agree" /\ setPc' # setPc) => setPc' \in {"start", "failed"}]_vars
  /\ [][setPc' = "start" => setPc \in {"readData", "agree", "start"}]_vars
  /\ [](pc # "off" => (data.Reg /\ setPc = "idle"))
  /\ [](InCall => data.Reg)
  /\ [](setPc # "idle" =>
          (pc = "off" /\ wPc = "off" /\ tickCh = 0 /\ dataCh = 0 /\ nTick = 0
             /\ fileVer = -1 /\ tmp = NoFile))
  /\ [][setPc = "failed" => UNCHANGED vars]_vars
  /\ (setPc = "idle") ~> AccountOnFile

\* The account registered at this startup is on the durable file while the
\* first acquisition is still in flight and no certificate was ever installed.
C21_Witness ==
  /\ AccountOnFile /\ fileVer = 0
  /\ DecodeFromJSON(file.bytes).Certs = EmptyMap
  /\ DOMAIN certs = {} /\ DOMAIN data.Certs = {}
  /\ pc = "obtain" /\ idx = 1

====
